---- MODULE Spec2Model ----
(***************************************************************************)
(* API-101 learning playground (src/server.js): the in-memory resource    *)
(* store (books, users, the two next-id counters) and the request         *)
(* handlers of its routes.  One action per route handler; each handler    *)
(* runs to completion, as in the single-threaded server; the timer of     *)
(* GET /api/slow fires in an action of its own.                           *)
(***************************************************************************)
EXTENDS Integers, Sequences, FiniteSets, TLC

(***************************************************************************)
(* JavaScript values.  A value carries its type in its field name, so     *)
(* that values of different types can be compared.  Strings are sequences *)
(* of one-character strings.                                              *)
(***************************************************************************)
Num(n) == [num |-> n]
Str(s) == [str |-> s]
Undefined == [undef |-> TRUE]
NaN == [nan |-> TRUE]

IsNum(v) == DOMAIN v = {"num"}
IsStr(v) == DOMAIN v = {"str"}

\* JavaScript truthiness: !v is FALSE exactly for these values.
Truthy(v) ==
    IF IsNum(v) THEN v.num # 0
    ELSE IF IsStr(v) THEN v.str # <<>>
    ELSE FALSE

\* a || b
OrElse(a, b) == IF Truthy(a) THEN a ELSE b

(***************************************************************************)
(* Request bodies are JSON objects: a sequence of <<key, value>> pairs    *)
(* (keys pairwise distinct, in the order the client wrote them).  Stored  *)
(* entries are objects too: functions from their keys to values.          *)
(***************************************************************************)
Keys(body) == [i \in 1..Len(body) |-> body[i][1]]

KeySet(body) == {body[i][1] : i \in 1..Len(body)}

\* body.k : the value, or undefined when the key is not there
Prop(body, k) ==
    IF k \in KeySet(body)
    THEN body[CHOOSE i \in 1..Len(body) : body[i][1] = k][2]
    ELSE Undefined

\* { ...obj, ...body } : the object spread of line 285
Spread(obj, body) ==
    [k \in DOMAIN obj \cup KeySet(body) |->
        IF k \in KeySet(body) THEN Prop(body, k) ELSE obj[k]]

\* { ...obj, id: v }
WithId(obj, v) == [k \in DOMAIN obj \cup {"id"} |-> IF k = "id" THEN v ELSE obj[k]]

(***************************************************************************)
(* parseInt(string): leading blanks, an optional sign, then the longest   *)
(* prefix of digits (hexadecimal after 0x); NaN when there is no digit.   *)
(***************************************************************************)
HexChars == <<"0", "1", "2", "3", "4", "5", "6", "7", "8", "9",
              "a", "b", "c", "d", "e", "f">>
HexUpper == <<"0", "1", "2", "3", "4", "5", "6", "7", "8", "9",
              "A", "B", "C", "D", "E", "F">>

IsDigit(c, radix) == \E i \in 1..radix : HexChars[i] = c \/ HexUpper[i] = c

DigitVal(c, radix) == (CHOOSE i \in 1..radix : HexChars[i] = c \/ HexUpper[i] = c) - 1

RECURSIVE SkipBlanks(_)
SkipBlanks(s) == IF s # <<>> /\ Head(s) = " " THEN SkipBlanks(Tail(s)) ELSE s

RECURSIVE ParseDigits(_, _, _)
ParseDigits(s, radix, acc) ==
    IF s # <<>> /\ IsDigit(Head(s), radix)
    THEN ParseDigits(Tail(s), radix, acc * radix + DigitVal(Head(s), radix))
    ELSE acc

\* variant: only a string of decimal digits is a number
parseInt_strict(s) ==
    IF s # <<>> /\ \A i \in 1..Len(s) : IsDigit(s[i], 10)
    THEN Num(ParseDigits(s, 10, 0))
    ELSE NaN

parseInt(s) ==
    LET t == SkipBlanks(s)
        signed == t # <<>> /\ Head(t) \in {"-", "+"}
        sign == IF t # <<>> /\ Head(t) = "-" THEN -1 ELSE 1
        u == IF signed THEN Tail(t) ELSE t
        hex == Len(u) >= 2 /\ u[1] = "0" /\ u[2] \in {"x", "X"}
        digits == IF hex THEN Tail(Tail(u)) ELSE u
        radix == IF hex THEN 16 ELSE 10
    IN  IF digits = <<>> \/ ~IsDigit(Head(digits), radix)
        THEN NaN
        ELSE Num(sign * ParseDigits(digits, radix, 0))

(***************************************************************************)
(* The in-memory database at process start (lines 45-82).                 *)
(***************************************************************************)
Book(id, title, author, year, genre) ==
    [id |-> Num(id), title |-> Str(title), author |-> Str(author),
     year |-> Num(year), genre |-> Str(genre)]

User(id, username, email, role) ==
    [id |-> Num(id), username |-> Str(username), email |-> Str(email),
     role |-> Str(role)]

Technology == <<"T", "e", "c", "h", "n", "o", "l", "o", "g", "y">>

SeedBooks == <<
    Book(1, <<"T", "h", "e", " ", "A", "P", "I", " ", "D", "e", "s", "i", "g", "n", " ", "B", "o", "o", "k">>,
         <<"R", "E", "S", "T", "f", "u", "l", " ", "R", "o", "y">>, 2020, Technology),
    Book(2, <<"H", "T", "T", "P", ":", " ", "T", "h", "e", " ", "D", "e", "f", "i", "n", "i", "t", "i", "v", "e", " ", "G", "u", "i", "d", "e">>,
         <<"W", "e", "b", " ", "W", "a", "l", "k", "e", "r">>, 2019, Technology),
    Book(3, <<"J", "a", "v", "a", "S", "c", "r", "i", "p", "t", " ", "M", "a", "s", "t", "e", "r", "y">>,
         <<"C", "o", "d", "e", " ", "C", "a", "r", "t", "e", "r">>, 2021,
         <<"P", "r", "o", "g", "r", "a", "m", "m", "i", "n", "g">>),
    Book(4, <<"T", "h", "e", " ", "A", "r", "t", " ", "o", "f", " ", "R", "E", "S", "T">>,
         <<"A", "P", "I", " ", "A", "n", "d", "y">>, 2022, Technology) >>

student == <<"s", "t", "u", "d", "e", "n", "t">>
admin == <<"a", "d", "m", "i", "n">>

SeedUsers == <<
    User(1, <<"l", "e", "a", "r", "n", "e", "r">>,
         <<"l", "e", "a", "r", "n", "e", "r", "@", "a", "p", "i", "1", "0", "1", ".", "c", "o", "m">>, student),
    User(2, <<"t", "e", "a", "c", "h", "e", "r">>,
         <<"t", "e", "a", "c", "h", "e", "r", "@", "a", "p", "i", "1", "0", "1", ".", "c", "o", "m">>, admin) >>

FirstBookId == 5
FirstUserId == 3

\* new Date().getFullYear() at the time of the request
CurrentYear == 2026

General == <<"G", "e", "n", "e", "r", "a", "l">>

\* the two credentials the handlers compare against
BearerToken == <<"B", "e", "a", "r", "e", "r", " ", "s", "e", "c", "r", "e", "t", "-", "t", "o", "k", "e", "n", "-", "1", "2", "3">>
ApiKey == <<"m", "y", "-", "s", "e", "c", "r", "e", "t", "-", "a", "p", "i", "-", "k", "e", "y">>

(***************************************************************************)
(* Bounds of the model and the requests the clients send.                 *)
(***************************************************************************)
MaxRequests == 3

\* the /:id path segments
PathSegs == {<<"4">>, <<"5">>, <<"a", "b", "c">>, <<"4", "a", "b", "c">>}

New == Str(<<"N", "e", "w">>)
Au == Str(<<"A", "u">>)
Fiction == Str(<<"F", "i", "c", "t", "i", "o", "n">>)

Minimal == << <<"title", New>>, <<"author", Au>> >>
Full == << <<"title", New>>, <<"author", Au>>, <<"year", Num(2025)>>, <<"genre", Fiction>> >>
FullAndMore == << <<"genre", Fiction>>, <<"year", Num(2025)>>, <<"rating", Num(5)>>,
                  <<"id", Num(1)>>, <<"author", Au>>, <<"title", New>> >>
YearZero == << <<"title", New>>, <<"author", Au>>, <<"year", Num(0)>>, <<"genre", Fiction>> >>
EmptyTitle == << <<"title", Str(<<>>)>>, <<"author", Au>>, <<"year", Num(2025)>>, <<"genre", Fiction>> >>
EmptyAuthor == << <<"title", New>>, <<"author", Str(<<>>)>> >>
AuthorOnly == << <<"author", Au>> >>
YearOnly == << <<"year", Num(2030)>> >>
IdAndMore == << <<"id", Num(1)>>, <<"rating", Num(5)>> >>

\* the bodies sent to POST /api/books, PUT and PATCH /api/books/:id
PostBodies == {<<>>, Minimal, Full, FullAndMore, YearZero, EmptyTitle, EmptyAuthor,
               AuthorOnly, YearOnly}
PutBodies == {<<>>, Minimal, Full, FullAndMore, YearZero, EmptyTitle}
PatchBodies == {<<>>, YearOnly, IdAndMore, FullAndMore}

neo == Str(<<"n", "e", "o">>)
neoMail == Str(<<"n", "e", "o", "@", "x", ".", "i", "o">>)

UserBodies == {
    <<>>,
    << <<"username", neo>>, <<"email", neoMail>> >>,
    << <<"email", neoMail>>, <<"role", Str(admin)>>, <<"username", neo>> >>,
    << <<"username", neo>> >>,
    << <<"username", Str(<<>>)>>, <<"email", neoMail>> >> }

\* values of the Authorization header: absent, empty, wrong, right
AuthHeaders == {Undefined, Str(<<>>), Str(<<"B", "e", "a", "r", "e", "r", " ", "x">>),
                Str(BearerToken)}

\* values of the X-API-Key header: absent, wrong, right
ApiKeyHeaders == {Undefined, Str(<<"k", "e", "y">>), Str(ApiKey)}

(***************************************************************************)
(* State.  books, users, nextBookId, nextUserId are the globals of        *)
(* lines 45-82.  request and response are the request being answered and  *)
(* the response sent for it.  pending holds the timers of the            *)
(* GET /api/slow requests that still wait.  nreq counts the requests      *)
(* handled, repeated tells that the request is the same as the one        *)
(* before it.  assignedBookIds, assignedUserIds and deletedBookIds record *)
(* which identifiers were handed out or deleted so far.                   *)
(* slowResponses counts, for the n-th GET /api/slow request, the          *)
(* responses it has received.                                             *)
(***************************************************************************)
VARIABLES books, users, nextBookId, nextUserId, request, response, nreq,
          assignedBookIds, assignedUserIds, deletedBookIds, pending, repeated,
          slowResponses

vars == <<books, users, nextBookId, nextUserId, request, response, nreq,
          assignedBookIds, assignedUserIds, deletedBookIds, pending, repeated,
          slowResponses>>

store == <<books, users, nextBookId, nextUserId>>

Req(method, path, seg, body, authorization, apiKey) ==
    [method |-> method, path |-> path, seg |-> seg, body |-> body,
     authorization |-> authorization, apiKey |-> apiKey]

NoRequest == Req("", "", <<>>, <<>>, Undefined, Undefined)
NoResponse == [status |-> 0]

Init ==
    /\ books = SeedBooks
    /\ users = SeedUsers
    /\ nextBookId = FirstBookId
    /\ nextUserId = FirstUserId
    /\ request = NoRequest
    /\ response = NoResponse
    /\ nreq = 0
    /\ assignedBookIds = {SeedBooks[i].id.num : i \in 1..Len(SeedBooks)}
    /\ assignedUserIds = {SeedUsers[i].id.num : i \in 1..Len(SeedUsers)}
    /\ deletedBookIds = {}
    /\ pending = <<>>
    /\ repeated = FALSE
    /\ slowResponses = <<>>

\* the ids of the entries of a collection
Ids(coll) == {coll[i].id : i \in 1..Len(coll)}

\* coll.findIndex((b) => b.id === id): zero-based, -1 when there is none
findIndex(coll, id) ==
    IF \E i \in 1..Len(coll) : coll[i].id = id
    THEN (CHOOSE i \in 1..Len(coll) :
            /\ coll[i].id = id
            /\ \A j \in 1..(i - 1) : coll[j].id # id) - 1
    ELSE -1

\* variant: the last entry is removed (pop), whatever the index
splice_last(coll, index) == SubSeq(coll, 1, Len(coll) - 1)

\* coll.splice(index, 1) : the collection that is left
splice(coll, index) ==
    [i \in 1..(Len(coll) - 1) |-> IF i <= index THEN coll[i] ELSE coll[i + 1]]

\* variant: the entry is pushed instead of assigned
SetAt_push(coll, index, entry) == Append(coll, entry)

\* coll[index] = entry
SetAt(coll, index, entry) == [coll EXCEPT ![index + 1] = entry]

\* a handler that answers at once: one more request, no timer touched
Handled ==
    /\ nreq' = nreq + 1
    /\ repeated' = (request' = request)
    /\ UNCHANGED <<pending, slowResponses>>

(***************************************************************************)
(* GET /api/books/:id  (lines 170-189)                                    *)
(***************************************************************************)
GetBook(seg) ==
    LET bookId == parseInt(seg)
        index == findIndex(books, bookId)
    IN  /\ nreq < MaxRequests
        /\ request' = Req("GET", "/api/books/:id", seg, <<>>, Undefined, Undefined)
        /\ response' =
             IF index = -1
             THEN [status |-> 404, success |-> FALSE, error |-> "Book not found",
                   requestedId |-> bookId,
                   tip |-> <<"Try an ID between 1 and ", nextBookId - 1>>]
             ELSE [status |-> 200, success |-> TRUE, pathParam |-> seg,
                   data |-> books[index + 1]]
        /\ Handled
        /\ UNCHANGED <<store, assignedBookIds, assignedUserIds, deletedBookIds>>

(***************************************************************************)
(* POST /api/books  (lines 198-229)                                       *)
(***************************************************************************)
\* variant: only the title is looked at
PostBookInvalid_titleOnly(body) == ~Truthy(Prop(body, "title"))

\* !title || !author
PostBookInvalid(body) == ~Truthy(Prop(body, "title")) \/ ~Truthy(Prop(body, "author"))

\* the greatest identifier in a collection, 0 for the empty one
MaxId(coll) ==
    IF coll = <<>> THEN 0
    ELSE CHOOSE m \in {coll[i].id.num : i \in 1..Len(coll)} :
            \A i \in 1..Len(coll) : coll[i].id.num <= m

\* variant: the identifier is taken from the collection, not from the counter
NewBookId_fromCollection(nextId, coll) == MaxId(coll) + 1

\* the identifier the new book gets (nextBookId++ yields the old value)
NewBookId(nextId, coll) == nextId

newBook(id, body) ==
    [id |-> Num(id),
     title |-> Prop(body, "title"),
     author |-> Prop(body, "author"),
     year |-> OrElse(Prop(body, "year"), Num(CurrentYear)),
     genre |-> OrElse(Prop(body, "genre"), Str(General))]

PostBook(body) ==
    /\ nreq < MaxRequests
    /\ request' = Req("POST", "/api/books", <<>>, body, Undefined, Undefined)
    /\ Handled
    /\ IF PostBookInvalid(body)
       THEN /\ response' = [status |-> 400, success |-> FALSE,
                            error |-> "Missing required fields",
                            required |-> <<"title", "author">>, received |-> body,
                            tip |-> "Send a JSON body with at least 'title' and 'author'"]
            /\ UNCHANGED <<store, assignedBookIds, assignedUserIds, deletedBookIds>>
       ELSE LET id == NewBookId(nextBookId, books)
                entry == newBook(id, body)
            IN  /\ nextBookId' = nextBookId + 1
                /\ books' = Append(books, entry)
                /\ assignedBookIds' = assignedBookIds \cup {id}
                /\ response' = [status |-> 201, success |-> TRUE,
                                message |-> "Book created successfully!",
                                data |-> entry]
                /\ UNCHANGED <<users, nextUserId, assignedUserIds, deletedBookIds>>

(***************************************************************************)
(* PUT /api/books/:id  (lines 236-265)                                    *)
(***************************************************************************)
\* !title || !author || !year || !genre
PutBookInvalid(body) ==
    \/ ~Truthy(Prop(body, "title"))
    \/ ~Truthy(Prop(body, "author"))
    \/ ~Truthy(Prop(body, "year"))
    \/ ~Truthy(Prop(body, "genre"))

\* { id: bookId, title, author, year, genre }
replacement(old, bookId, body) ==
    [id |-> bookId,
     title |-> Prop(body, "title"),
     author |-> Prop(body, "author"),
     year |-> Prop(body, "year"),
     genre |-> Prop(body, "genre")]

PutBook(seg, body) ==
    LET bookId == parseInt(seg)
        bookIndex == findIndex(books, bookId)
    IN  /\ nreq < MaxRequests
        /\ request' = Req("PUT", "/api/books/:id", seg, body, Undefined, Undefined)
        /\ Handled
        /\ UNCHANGED <<users, nextBookId, nextUserId,
                       assignedBookIds, assignedUserIds, deletedBookIds>>
        /\ IF bookIndex = -1
           THEN /\ response' = [status |-> 404, success |-> FALSE,
                                error |-> "Book not found"]
                /\ UNCHANGED books
           ELSE IF PutBookInvalid(body)
           THEN /\ response' = [status |-> 400, success |-> FALSE,
                                error |-> "PUT requires ALL fields (title, author, year, genre)",
                                tip |-> "Use PATCH if you only want to update some fields"]
                /\ UNCHANGED books
           ELSE /\ books' = SetAt(books, bookIndex,
                                  replacement(books[bookIndex + 1], bookId, body))
                /\ response' = [status |-> 200, success |-> TRUE,
                                message |-> "Book replaced completely!",
                                method |-> "PUT - Full replacement",
                                data |-> books'[bookIndex + 1]]

(***************************************************************************)
(* PATCH /api/books/:id  (lines 272-295)                                  *)
(***************************************************************************)
\* variant: the body is spread last, over the id
patched_bodyLast(old, body, bookId) == Spread(WithId(old, bookId), body)

\* { ...books[bookIndex], ...req.body, id: bookId }
patched(old, body, bookId) == WithId(Spread(old, body), bookId)

\* variant: the id, which a PATCH cannot change, is left out of the list
fieldsChanged_withoutId(body) == SelectSeq(Keys(body), LAMBDA k : k # "id")

\* Object.keys(req.body)
fieldsChanged(body) == Keys(body)

PatchBook(seg, body) ==
    LET bookId == parseInt(seg)
        bookIndex == findIndex(books, bookId)
    IN  /\ nreq < MaxRequests
        /\ request' = Req("PATCH", "/api/books/:id", seg, body, Undefined, Undefined)
        /\ Handled
        /\ UNCHANGED <<users, nextBookId, nextUserId,
                       assignedBookIds, assignedUserIds, deletedBookIds>>
        /\ IF bookIndex = -1
           THEN /\ response' = [status |-> 404, success |-> FALSE,
                                error |-> "Book not found"]
                /\ UNCHANGED books
           ELSE LET previousBook == books[bookIndex + 1]
                IN  /\ books' = SetAt(books, bookIndex,
                                      patched(books[bookIndex + 1], body, bookId))
                    /\ response' = [status |-> 200, success |-> TRUE,
                                    message |-> "Book updated!",
                                    method |-> "PATCH - Partial update",
                                    previous |-> previousBook,
                                    updated |-> books'[bookIndex + 1],
                                    fieldsChanged |-> fieldsChanged(body)]

(***************************************************************************)
(* DELETE /api/books/:id  (lines 302-321)                                 *)
(***************************************************************************)
DeleteBook(seg) ==
    LET bookId == parseInt(seg)
        bookIndex == findIndex(books, bookId)
    IN  /\ nreq < MaxRequests
        /\ request' = Req("DELETE", "/api/books/:id", seg, <<>>, Undefined, Undefined)
        /\ Handled
        /\ UNCHANGED <<users, nextBookId, nextUserId, assignedBookIds, assignedUserIds>>
        /\ IF bookIndex = -1
           THEN /\ response' = [status |-> 404, success |-> FALSE,
                                error |-> "Book not found"]
                /\ UNCHANGED <<books, deletedBookIds>>
           ELSE LET deletedBook == books[bookIndex + 1]
                IN  /\ books' = splice(books, bookIndex)
                    /\ deletedBookIds' = deletedBookIds \cup {bookId.num}
                    /\ response' = [status |-> 200, success |-> TRUE,
                                    message |-> "Book deleted successfully!",
                                    deletedBook |-> deletedBook]

(***************************************************************************)
(* GET /api/users  (lines 382-409)                                        *)
(***************************************************************************)
\* variant: any bearer token is let in
usersAuthStatus_anyBearer(authHeader) ==
    IF ~Truthy(authHeader) THEN 401
    ELSE IF Len(authHeader.str) < 7 \/ SubSeq(authHeader.str, 1, 7) # SubSeq(BearerToken, 1, 7)
         THEN 403
    ELSE 200

\* the status the Authorization header leads to
usersAuthStatus(authHeader) ==
    IF ~Truthy(authHeader) THEN 401
    ELSE IF authHeader # Str(BearerToken) THEN 403
    ELSE 200

GetUsers(authHeader) ==
    /\ nreq < MaxRequests
    /\ request' = Req("GET", "/api/users", <<>>, <<>>, authHeader, Undefined)
    /\ Handled
    /\ UNCHANGED <<store, assignedBookIds, assignedUserIds, deletedBookIds>>
    /\ response' =
         CASE usersAuthStatus(authHeader) = 401 ->
                [status |-> 401, success |-> FALSE,
                 error |-> "No authorization header provided",
                 tip |-> "Add header: Authorization: Bearer secret-token-123"]
           [] usersAuthStatus(authHeader) = 403 ->
                [status |-> 403, success |-> FALSE, error |-> "Invalid token",
                 received |-> authHeader, expected |-> Str(BearerToken)]
           [] OTHER ->
                [status |-> 200, success |-> TRUE,
                 message |-> "Authentication successful!", data |-> users]

(***************************************************************************)
(* POST /api/users  (lines 414-448)                                       *)
(***************************************************************************)
\* apiKey !== "my-secret-api-key"
apiKeyRejected(apiKey) == apiKey # Str(ApiKey)

\* !username || !email
PostUserInvalid(body) == ~Truthy(Prop(body, "username")) \/ ~Truthy(Prop(body, "email"))

newUser(id, body) ==
    [id |-> Num(id),
     username |-> Prop(body, "username"),
     email |-> Prop(body, "email"),
     role |-> OrElse(Prop(body, "role"), Str(student))]

\* variant: the body is looked at first, then the key
postUserStatus_bodyFirst(apiKey, body) ==
    IF PostUserInvalid(body) THEN 400
    ELSE IF apiKeyRejected(apiKey) THEN 401
    ELSE 201

\* the status of POST /api/users: the key is looked at first, then the body
postUserStatus(apiKey, body) ==
    IF apiKeyRejected(apiKey) THEN 401
    ELSE IF PostUserInvalid(body) THEN 400
    ELSE 201

PostUser(apiKey, body) ==
    /\ nreq < MaxRequests
    /\ request' = Req("POST", "/api/users", <<>>, body, Undefined, apiKey)
    /\ Handled
    /\ UNCHANGED <<books, nextBookId, assignedBookIds, deletedBookIds>>
    /\ CASE postUserStatus(apiKey, body) = 401 ->
              /\ response' = [status |-> 401, success |-> FALSE,
                              error |-> "Invalid or missing X-API-Key header",
                              tip |-> "Add header: X-API-Key: my-secret-api-key"]
              /\ UNCHANGED <<users, nextUserId, assignedUserIds>>
         [] postUserStatus(apiKey, body) = 400 ->
              /\ response' = [status |-> 400, success |-> FALSE,
                              error |-> "Missing required fields: username, email"]
              /\ UNCHANGED <<users, nextUserId, assignedUserIds>>
         [] OTHER ->
              LET entry == newUser(nextUserId, body)
              IN  /\ nextUserId' = nextUserId + 1
                  /\ users' = Append(users, entry)
                  /\ assignedUserIds' = assignedUserIds \cup {nextUserId}
                  /\ response' = [status |-> 201, success |-> TRUE,
                                  message |-> "User created!", data |-> entry]

(***************************************************************************)
(* Strings: the characters in the order of their code units, the          *)
(* comparison a < b, toLowerCase and includes.                            *)
(***************************************************************************)
Alphabet == <<" ", "-", ".", "0", "1", "2", "3", "4", "5", "6", "7", "8", "9", ":", "@",
              "A", "B", "C", "D", "E", "F", "G", "H", "I", "J", "K", "L", "M",
              "N", "O", "P", "Q", "R", "S", "T", "U", "V", "W", "X", "Y", "Z",
              "a", "b", "c", "d", "e", "f", "g", "h", "i", "j", "k", "l", "m",
              "n", "o", "p", "q", "r", "s", "t", "u", "v", "w", "x", "y", "z">>

CodeOf(c) == CHOOSE i \in 1..Len(Alphabet) : Alphabet[i] = c

IsUpper(c) == CodeOf(c) >= CodeOf("A") /\ CodeOf(c) <= CodeOf("Z")

\* s.toLowerCase()
toLowerCase(s) ==
    [i \in 1..Len(s) |->
        IF IsUpper(s[i]) THEN Alphabet[CodeOf(s[i]) - CodeOf("A") + CodeOf("a")] ELSE s[i]]

\* hay.includes(needle)
includes(hay, needle) ==
    \E i \in 0..(Len(hay) - Len(needle)) : SubSeq(hay, i + 1, i + Len(needle)) = needle

\* s < t for two strings: the first differing code unit decides, a proper prefix is less
RECURSIVE StrLess(_, _)
StrLess(s, t) ==
    IF t = <<>> THEN FALSE
    ELSE IF s = <<>> THEN TRUE
    ELSE IF Head(s) # Head(t) THEN CodeOf(Head(s)) < CodeOf(Head(t))
    ELSE StrLess(Tail(s), Tail(t))

\* Number(v): NaN for undefined and for a string that is not a decimal numeral
ToNumber(v) ==
    IF IsNum(v) THEN v
    ELSE IF IsStr(v)
         THEN IF v.str = <<>> THEN Num(0)
              ELSE IF \A i \in 1..Len(v.str) : IsDigit(v.str[i], 10)
                   THEN Num(ParseDigits(v.str, 10, 0))
                   ELSE NaN
    ELSE NaN

\* a < b : two strings are compared as strings, anything else as numbers
Less(a, b) ==
    IF IsStr(a) /\ IsStr(b) THEN StrLess(a.str, b.str)
    ELSE /\ IsNum(ToNumber(a)) /\ IsNum(ToNumber(b))
         /\ ToNumber(a).num < ToNumber(b).num

\* a >= b, a <= b
GreaterEq(a, b) ==
    IF IsStr(a) /\ IsStr(b) THEN ~StrLess(a.str, b.str)
    ELSE /\ IsNum(ToNumber(a)) /\ IsNum(ToNumber(b))
         /\ ToNumber(a).num >= ToNumber(b).num

LessEq(a, b) == GreaterEq(b, a)

\* parseInt(v) of a query parameter: of the string, NaN for undefined
parseIntOf(v) == IF IsStr(v) THEN parseInt(v.str) ELSE NaN

\* the names of object keys as strings of characters
KeyChars(k) ==
    CASE k = "id" -> <<"i", "d">>
      [] k = "title" -> <<"t", "i", "t", "l", "e">>
      [] k = "author" -> <<"a", "u", "t", "h", "o", "r">>
      [] k = "year" -> <<"y", "e", "a", "r">>
      [] k = "genre" -> <<"g", "e", "n", "r", "e">>
      [] k = "rating" -> <<"r", "a", "t", "i", "n", "g">>
      [] OTHER -> <<>>

\* obj[name] : undefined when the object has no such key
Field(obj, name) ==
    IF \E k \in DOMAIN obj : KeyChars(k) = name
    THEN obj[CHOOSE k \in DOMAIN obj : KeyChars(k) = name]
    ELSE Undefined

\* the response of the global error handler (lines 728-734)
internalError(message) ==
    [status |-> 500, success |-> FALSE, error |-> "Internal server error",
     message |-> message]

\* a request with a query string
ReqQ(method, path, query) ==
    [method |-> method, path |-> path, seg |-> <<>>, body |-> <<>>,
     authorization |-> Undefined, apiKey |-> Undefined, query |-> query]

(***************************************************************************)
(* GET /api/books  (lines 130-161)                                        *)
(***************************************************************************)
\* the genre filter calls toLowerCase on the genre of every book: a TypeError
\* when one of them is not a string
genreFilterThrows(coll, genre) ==
    Truthy(genre) /\ \E i \in 1..Len(coll) : ~IsStr(coll[i].genre)

\* result.filter((book) => book.genre.toLowerCase() === req.query.genre.toLowerCase())
filterGenre(coll, genre) ==
    IF Truthy(genre)
    THEN SelectSeq(coll, LAMBDA book : toLowerCase(book.genre.str) = toLowerCase(genre.str))
    ELSE coll

\* the comparator of lines 143-147
compare(a, b, sortField) ==
    IF Less(Field(a, sortField), Field(b, sortField)) THEN -1
    ELSE IF Less(Field(b, sortField), Field(a, sortField)) THEN 1
    ELSE 0

\* put x into a sorted sequence, behind the entries that do not come after it
RECURSIVE insertSorted(_, _, _)
insertSorted(sorted, x, sortField) ==
    IF sorted = <<>> THEN <<x>>
    ELSE IF compare(x, Head(sorted), sortField) < 0 THEN <<x>> \o sorted
    ELSE <<Head(sorted)>> \o insertSorted(Tail(sorted), x, sortField)

\* result.sort(comparator): the sort is stable
RECURSIVE sortBy(_, _)
sortBy(coll, sortField) ==
    IF coll = <<>> THEN <<>>
    ELSE insertSorted(sortBy(SubSeq(coll, 1, Len(coll) - 1), sortField),
                      coll[Len(coll)], sortField)

sortResult(coll, sort) == IF Truthy(sort) THEN sortBy(coll, sort.str) ELSE coll

\* result.slice(0, end): a negative end counts from the end, NaN is 0
slice0(coll, end) ==
    LET n == IF IsNum(end) THEN end.num ELSE 0
        last == IF n < 0 THEN Len(coll) + n ELSE n
    IN  SubSeq(coll, 1, IF last > Len(coll) THEN Len(coll) ELSE last)

limitResult(coll, limit) == IF Truthy(limit) THEN slice0(coll, parseIntOf(limit)) ELSE coll

\* the data of the response
listData(coll, query) ==
    limitResult(sortResult(filterGenre(coll, Prop(query, "genre")), Prop(query, "sort")),
                Prop(query, "limit"))

\* variant: the sort works on books itself when there is no filter in between
booksAfterList_inPlace(coll, query) ==
    IF Truthy(Prop(query, "genre")) THEN coll ELSE sortResult(coll, Prop(query, "sort"))

\* books after the request: result is a copy ([...books]), books is not touched
booksAfterList(coll, query) == coll

ListBooks(query) ==
    /\ nreq < MaxRequests
    /\ request' = ReqQ("GET", "/api/books", query)
    /\ Handled
    /\ books' = booksAfterList(books, query)
    /\ UNCHANGED <<users, nextBookId, nextUserId,
                   assignedBookIds, assignedUserIds, deletedBookIds>>
    /\ response' =
         IF genreFilterThrows(books, Prop(query, "genre"))
         THEN internalError("book.genre.toLowerCase is not a function")
         ELSE [status |-> 200, success |-> TRUE,
               count |-> Len(listData(books, query)),
               queryParams |-> query,
               data |-> listData(books, query)]

(***************************************************************************)
(* GET /api/search  (lines 334-369)                                       *)
(***************************************************************************)
\* the q filter reads title, then author, then genre of a book, and stops at
\* the first that contains the query; toLowerCase of a non-string is a TypeError
qThrowsAt(book, query) ==
    \/ ~IsStr(book.title)
    \/ /\ ~includes(toLowerCase(book.title.str), query)
       /\ \/ ~IsStr(book.author)
          \/ /\ ~includes(toLowerCase(book.author.str), query)
             /\ ~IsStr(book.genre)

qMatches(book, query) ==
    \/ includes(toLowerCase(book.title.str), query)
    \/ includes(toLowerCase(book.author.str), query)
    \/ includes(toLowerCase(book.genre.str), query)

qThrows(coll, q) ==
    Truthy(q) /\ \E i \in 1..Len(coll) : qThrowsAt(coll[i], toLowerCase(q.str))

afterQ(coll, q) ==
    IF Truthy(q)
    THEN SelectSeq(coll, LAMBDA book : qMatches(book, toLowerCase(q.str)))
    ELSE coll

\* book.year >= parseInt(minYear)
afterMinYear(coll, minYear) ==
    IF Truthy(minYear)
    THEN SelectSeq(coll, LAMBDA book : GreaterEq(book.year, parseIntOf(minYear)))
    ELSE coll

\* book.year <= parseInt(maxYear)
afterMaxYear(coll, maxYear) ==
    IF Truthy(maxYear)
    THEN SelectSeq(coll, LAMBDA book : LessEq(book.year, parseIntOf(maxYear)))
    ELSE coll

afterYears(coll, query) ==
    afterMaxYear(afterMinYear(afterQ(coll, Prop(query, "q")), Prop(query, "minYear")),
                 Prop(query, "maxYear"))

authorThrows(coll, author) ==
    Truthy(author) /\ \E i \in 1..Len(coll) : ~IsStr(coll[i].author)

\* book.author.toLowerCase().includes(author.toLowerCase())
afterAuthor(coll, author) ==
    IF Truthy(author)
    THEN SelectSeq(coll, LAMBDA book :
             includes(toLowerCase(book.author.str), toLowerCase(author.str)))
    ELSE coll

searchThrows(coll, query) ==
    \/ qThrows(coll, Prop(query, "q"))
    \/ authorThrows(afterYears(coll, query), Prop(query, "author"))

searchData(coll, query) == afterAuthor(afterYears(coll, query), Prop(query, "author"))

Search(query) ==
    /\ nreq < MaxRequests
    /\ request' = ReqQ("GET", "/api/search", query)
    /\ Handled
    /\ UNCHANGED <<store, assignedBookIds, assignedUserIds, deletedBookIds>>
    /\ response' =
         IF searchThrows(books, query)
         THEN internalError("toLowerCase is not a function")
         ELSE [status |-> 200, success |-> TRUE,
               searchCriteria |-> query,
               resultsFound |-> Len(searchData(books, query)),
               data |-> searchData(books, query)]

(***************************************************************************)
(* GET /  (lines 92-112)                                                  *)
(***************************************************************************)
GetRoot ==
    /\ nreq < MaxRequests
    /\ request' = ReqQ("GET", "/", <<>>)
    /\ Handled
    /\ UNCHANGED <<store, assignedBookIds, assignedUserIds, deletedBookIds>>
    /\ response' = [status |-> 200,
                    message |-> "Welcome to API 101 Learning Playground!",
                    version |-> "1.0.0",
                    tip |-> "Try visiting /api/books to see a list of books",
                    availableEndpoints |-> 12]

(***************************************************************************)
(* GET /api/status/:code  (lines 512-570)                                 *)
(***************************************************************************)
StatusTable == {200, 201, 204, 301, 304, 400, 401, 403, 404, 405, 409, 429, 500, 502, 503}

meaning(code) ==
    CASE code = 200 -> "OK"
      [] code = 201 -> "Created"
      [] code = 204 -> "No Content"
      [] code = 301 -> "Moved Permanently"
      [] code = 304 -> "Not Modified"
      [] code = 400 -> "Bad Request"
      [] code = 401 -> "Unauthorized"
      [] code = 403 -> "Forbidden"
      [] code = 404 -> "Not Found"
      [] code = 405 -> "Method Not Allowed"
      [] code = 409 -> "Conflict"
      [] code = 429 -> "Too Many Requests"
      [] code = 500 -> "Internal Server Error"
      [] code = 502 -> "Bad Gateway"
      [] code = 503 -> "Service Unavailable"

\* statusMessages[code] || { meaning: "Unknown", ... }
statusInfo(code) ==
    IF IsNum(code) /\ code.num \in StatusTable THEN meaning(code.num) ELSE "Unknown"

\* the status line cannot carry a code below 100 or above 999 (NaN counts as 0):
\* writing the head throws, and the global error handler answers
\* variant: only the codes of the five standard classes can be written
statusWritable_standard(code) == IsNum(code) /\ code.num >= 100 /\ code.num <= 599

statusWritable(code) == IsNum(code) /\ code.num >= 100 /\ code.num <= 999

\* no body goes out with 1xx, 204 and 304
hasBody(n) == n >= 200 /\ n # 204 /\ n # 304

statusResponse(code) ==
    IF ~statusWritable(code) THEN internalError("Invalid status code")
    ELSE IF ~hasBody(code.num) THEN [status |-> code.num]
    ELSE [status |-> code.num, statusCode |-> code, meaning |-> statusInfo(code),
          tip |-> "Try different codes: 200, 201, 400, 401, 403, 404, 500"]

GetStatus(seg) ==
    /\ nreq < MaxRequests
    /\ request' = Req("GET", "/api/status/:code", seg, <<>>, Undefined, Undefined)
    /\ Handled
    /\ UNCHANGED <<store, assignedBookIds, assignedUserIds, deletedBookIds>>
    /\ response' = statusResponse(parseInt(seg))

(***************************************************************************)
(* GET /api/slow  (lines 583-596)                                         *)
(***************************************************************************)
DefaultDelay == 3000
maxDelay == 10000

\* Math.min(parseInt(req.query.delay) || 3000, maxDelay)
actualDelay(query) ==
    LET delay == OrElse(parseIntOf(Prop(query, "delay")), Num(DefaultDelay)).num
    IN  IF delay < maxDelay THEN delay ELSE maxDelay

\* the handler starts a timer and returns without a response
GetSlow(query) ==
    /\ nreq < MaxRequests
    /\ request' = ReqQ("GET", "/api/slow", query)
    /\ nreq' = nreq + 1
    /\ repeated' = (request' = request)
    /\ pending' = Append(pending, [ticket |-> Len(slowResponses) + 1, query |-> query,
                                   actualDelay |-> actualDelay(query)])
    /\ slowResponses' = Append(slowResponses, 0)
    /\ response' = NoResponse
    /\ UNCHANGED <<store, assignedBookIds, assignedUserIds, deletedBookIds>>

\* variant: the timer stays armed after its callback (setInterval)
SlowTimeout_repeating ==
    \E i \in 1..Len(pending) :
        /\ pending' = pending
        /\ slowResponses' = [slowResponses EXCEPT ![pending[i].ticket] = @ + 1]
        /\ request' = ReqQ("GET", "/api/slow", pending[i].query)
        /\ repeated' = FALSE
        /\ response' = [status |-> 200, success |-> TRUE,
                        message |-> pending[i].actualDelay,
                        tip |-> "Use ?delay=5000 to wait 5 seconds"]
        /\ UNCHANGED <<store, nreq, assignedBookIds, assignedUserIds, deletedBookIds>>

\* the callback of a timer: the response of the slow request it belongs to
SlowTimeout ==
    \E i \in 1..Len(pending) :
        /\ pending' = splice(pending, i - 1)
        /\ slowResponses' = [slowResponses EXCEPT ![pending[i].ticket] = @ + 1]
        /\ request' = ReqQ("GET", "/api/slow", pending[i].query)
        /\ repeated' = FALSE
        /\ response' = [status |-> 200, success |-> TRUE,
                        message |-> pending[i].actualDelay,
                        tip |-> "Use ?delay=5000 to wait 5 seconds"]
        /\ UNCHANGED <<store, nreq, assignedBookIds, assignedUserIds, deletedBookIds>>

(***************************************************************************)
(* GET /api/random  (lines 607-630)                                       *)
(***************************************************************************)
RandomNumbers == {0, 999}
QuoteAndColor == {<<1, 1>>, <<5, 6>>}

GetRandom ==
    /\ nreq < MaxRequests
    /\ request' = ReqQ("GET", "/api/random", <<>>)
    /\ Handled
    /\ UNCHANGED <<store, assignedBookIds, assignedUserIds, deletedBookIds>>
    /\ \E n \in RandomNumbers, qc \in QuoteAndColor :
          response' = [status |-> 200, success |-> TRUE, randomNumber |-> n,
                       randomQuote |-> qc[1], randomColor |-> qc[2]]

(***************************************************************************)
(* POST /api/calculate  (lines 641-688)                                   *)
(***************************************************************************)
Abs(n) == IF n < 0 THEN -n ELSE n

Divides(d, n) == \E q \in -Abs(n)..Abs(n) : q * d = n

Gcd(m, n) == CHOOSE d \in 1..Abs(n) : Divides(d, m) /\ Divides(d, n) /\
                 \A e \in 1..Abs(n) : (Divides(e, m) /\ Divides(e, n)) => e <= d

\* variant: the quotient rounded down to an integer
Quotient_floor(a, b) == Num(a \div b)

\* a / b for b # 0: the exact quotient, a fraction in lowest terms when it is
\* not an integer
Quotient(a, b) ==
    IF Divides(b, a) THEN Num(CHOOSE q \in -Abs(a)..Abs(a) : q * b = a)
    ELSE LET g == Gcd(a, b)
             sign == IF b < 0 THEN -1 ELSE 1
         IN  [numer |-> sign * (CHOOSE q \in -Abs(a)..Abs(a) : q * g = a),
              denom |-> sign * (CHOOSE q \in -Abs(b)..Abs(b) : q * g = b)]

add == Str(<<"a", "d", "d">>)
subtract == Str(<<"s", "u", "b", "t", "r", "a", "c", "t">>)
multiply == Str(<<"m", "u", "l", "t", "i", "p", "l", "y">>)
divide == Str(<<"d", "i", "v", "i", "d", "e">>)

badRequest(error) == [status |-> 400, success |-> FALSE, error |-> error]

calculate(operation, a, b) ==
    IF ~IsNum(a) \/ ~IsNum(b) THEN badRequest("a and b must be numbers")
    ELSE IF operation = add
         THEN [status |-> 200, success |-> TRUE, operation |-> operation, a |-> a, b |-> b,
               result |-> Num(a.num + b.num)]
    ELSE IF operation = subtract
         THEN [status |-> 200, success |-> TRUE, operation |-> operation, a |-> a, b |-> b,
               result |-> Num(a.num - b.num)]
    ELSE IF operation = multiply
         THEN [status |-> 200, success |-> TRUE, operation |-> operation, a |-> a, b |-> b,
               result |-> Num(a.num * b.num)]
    ELSE IF operation = divide
         THEN IF b.num = 0 THEN badRequest("Cannot divide by zero")
              ELSE [status |-> 200, success |-> TRUE, operation |-> operation,
                    a |-> a, b |-> b, result |-> Quotient(a.num, b.num)]
    ELSE badRequest("Unknown operation")

Calculate(body) ==
    /\ nreq < MaxRequests
    /\ request' = Req("POST", "/api/calculate", <<>>, body, Undefined, Undefined)
    /\ Handled
    /\ UNCHANGED <<store, assignedBookIds, assignedUserIds, deletedBookIds>>
    /\ response' = calculate(Prop(body, "operation"), Prop(body, "a"), Prop(body, "b"))

(***************************************************************************)
(* Any request no route matches  (lines 716-724)                          *)
(***************************************************************************)
Unmatched(method, path) ==
    /\ nreq < MaxRequests
    /\ request' = Req(method, path, <<>>, <<>>, Undefined, Undefined)
    /\ Handled
    /\ UNCHANGED <<store, assignedBookIds, assignedUserIds, deletedBookIds>>
    /\ response' = [status |-> 404, success |-> FALSE, error |-> "Endpoint not found",
                    requestedUrl |-> path, method |-> method,
                    tip |-> "Visit / to see all available endpoints"]

Next ==
    \/ \E seg \in PathSegs : GetBook(seg)
    \/ \E body \in PostBodies : PostBook(body)
    \/ \E seg \in PathSegs, body \in PutBodies : PutBook(seg, body)
    \/ \E seg \in PathSegs, body \in PatchBodies : PatchBook(seg, body)
    \/ \E seg \in PathSegs : DeleteBook(seg)
    \/ \E authHeader \in AuthHeaders : GetUsers(authHeader)
    \/ \E apiKey \in ApiKeyHeaders, body \in UserBodies : PostUser(apiKey, body)

Spec == Init /\ [][Next]_vars

(***************************************************************************)
(* The query routes.  A few requests that change the store, among them    *)
(* one that stores a number as genre and one that stores an empty title,  *)
(* and every GET route, the list and the search with many queries.        *)
(***************************************************************************)
QuerySegs == {<<"2">>, <<"5">>}

NumberGenre == << <<"title", New>>, <<"author", Au>>, <<"genre", Num(7)>> >>
BlankTitle == << <<"title", Str(<<>>)>> >>

TECHNOLOGY == <<"T", "E", "C", "H", "N", "O", "L", "O", "G", "Y">>
titleField == Str(<<"t", "i", "t", "l", "e">>)
yearField == Str(<<"y", "e", "a", "r">>)

\* query strings of GET /api/books
ListQueries == {
    <<>>,
    << <<"genre", Str(TECHNOLOGY)>> >>,
    << <<"genre", Str(Technology)>>, <<"limit", Str(<<"2">>)>> >>,
    << <<"genre", Fiction>>, <<"sort", yearField>> >>,
    << <<"sort", titleField>> >>,
    << <<"sort", yearField>>, <<"limit", Str(<<"3">>)>> >>,
    << <<"sort", Str(<<"x">>)>> >>,
    << <<"limit", Str(<<"0">>)>> >>,
    << <<"limit", Str(<<"-", "1">>)>> >>,
    << <<"limit", Str(<<"9">>)>> >>,
    << <<"limit", Str(<<"a", "b", "c">>)>> >> }

\* query strings of GET /api/search
SearchQueries == {
    <<>>,
    << <<"q", Str(<<"A", "P", "I">>)>> >>,
    << <<"q", Str(<<"A", "P", "I">>)>>, <<"minYear", Str(<<"2", "0", "2", "0">>)>>,
       <<"maxYear", Str(<<"2", "0", "2", "5">>)>> >>,
    << <<"q", Str(<<"z", "z", "z">>)>> >>,
    << <<"q", Str(<<"t", "e", "c", "h">>)>>, <<"author", Str(<<"a">>)>> >>,
    << <<"minYear", Str(<<"2", "0", "2", "1">>)>> >>,
    << <<"maxYear", Str(<<"2", "0", "1", "9">>)>> >>,
    << <<"minYear", Str(<<"a", "b", "c">>)>> >>,
    << <<"author", Str(<<"R", "O", "Y">>)>> >> }

SlowQueries == {<<>>, << <<"delay", Str(<<"5", "0">>)>> >>}

QueryNext ==
    \/ \E body \in {Minimal, NumberGenre} : PostBook(body)
    \/ \E seg \in QuerySegs : PutBook(seg, Full)
    \/ \E seg \in QuerySegs, body \in {YearOnly, BlankTitle} : PatchBook(seg, body)
    \/ \E seg \in QuerySegs : DeleteBook(seg)
    \/ PostUser(Str(ApiKey), << <<"username", neo>>, <<"email", neoMail>> >>)
    \/ \E query \in ListQueries : ListBooks(query)
    \/ \E query \in SearchQueries : Search(query)
    \/ \E seg \in QuerySegs : GetBook(seg)
    \/ GetUsers(Str(BearerToken))
    \/ GetRoot
    \/ GetStatus(<<"4", "0", "4">>)
    \/ \E query \in SlowQueries : GetSlow(query)
    \/ SlowTimeout
    \/ GetRandom
    \/ Unmatched("GET", "/nope")

QuerySpec == Init /\ [][QueryNext]_vars

(***************************************************************************)
(* The utility routes: the calculator, the status codes, the welcome      *)
(* route, the random data and the fallback.                               *)
(***************************************************************************)
Operations == {add, subtract, multiply, divide, Str(<<"m", "o", "d">>)}
OperandsA == {Num(7), Num(5), Num(0), Str(<<"5">>)}
OperandsB == {Num(8), Num(0), Num(-2), Str(<<"8">>)}

CalculateBodies ==
    {<< <<"operation", op>>, <<"a", a>>, <<"b", b>> >> :
        op \in Operations, a \in OperandsA, b \in OperandsB}
    \cup {<<>>, << <<"a", Num(7)>>, <<"b", Num(8)>> >>, << <<"operation", multiply>> >>}

\* the segments of /api/status/:code
StatusSegs == {<<"2", "0", "0">>, <<"4", "0", "4">>, <<"5", "0", "0">>, <<"2", "0", "4">>,
               <<"4", "1", "8">>, <<"9", "9", "9">>, <<"1", "0", "0", "0">>,
               <<"9", "9">>, <<"-", "1">>, <<"0">>}

UtilNext ==
    \/ \E body \in CalculateBodies : Calculate(body)
    \/ \E seg \in StatusSegs : GetStatus(seg)
    \/ GetRoot
    \/ GetRandom
    \/ \E r \in {<<"GET", "/nope">>, <<"DELETE", "/api/books">>} : Unmatched(r[1], r[2])
    \/ \E body \in {Minimal, <<>>} : PostBook(body)

UtilSpec == Init /\ [][UtilNext]_vars

(***************************************************************************)
(* The slow route among other requests.  The event loop runs the callback *)
(* of every timer that is due, so a timer that waits is fired at last:    *)
(* weak fairness of SlowTimeout.                                          *)
(***************************************************************************)
SlowNext ==
    \/ \E query \in SlowQueries : GetSlow(query)
    \/ SlowTimeout
    \/ PostBook(Minimal)
    \/ PatchBook(<<"2">>, YearOnly)
    \/ \E seg \in QuerySegs : DeleteBook(seg)
    \/ \E seg \in QuerySegs : GetBook(seg)
    \/ ListBooks(<<>>)

SlowSpec == Init /\ [][SlowNext]_vars /\ WF_vars(SlowTimeout)

(***************************************************************************)
(* Vocabulary of the properties.                                          *)
(***************************************************************************)
IsReq(req, method, path) == req.method = method /\ req.path = path

\* the key is in the body
Supplies(body, k) == k \in KeySet(body)

\* the key is in the body with a non-empty string
NonEmptyString(body, k) == Supplies(body, k) /\ IsStr(Prop(body, k)) /\ Prop(body, k).str # <<>>

\* the key is not in the body, or is there with the empty string
LacksOrEmpty(body, k) == ~Supplies(body, k) \/ Prop(body, k) = Str(<<>>)

\* the greatest element of a non-empty set of numbers
Max(S) == CHOOSE m \in S : \A x \in S : x <= m

\* the step answers a GET /api/books/:id for the book the previous step created
GetAfterCreate ==
    /\ IsReq(request, "POST", "/api/books") /\ response.status = 201
    /\ IsReq(request', "GET", "/api/books/:id")
    /\ parseInt(request'.seg) = response.data.id

(***************************************************************************)
(* C1 (as stated): a POST /api/books with a non-empty title and author    *)
(* returns 201, the new identifier is one greater than the greatest       *)
(* identifier in the collection before the request, and a GET for that    *)
(* identifier right after returns 200 with the entry.                     *)
(***************************************************************************)
C1_IdAfterCollectionMax ==
    [][ /\ ( /\ IsReq(request', "POST", "/api/books")
             /\ NonEmptyString(request'.body, "title")
             /\ NonEmptyString(request'.body, "author") )
           => /\ response'.status = 201
              /\ response'.data.id = Num(MaxId(books) + 1)
        /\ GetAfterCreate => response'.status = 200 /\ response'.data = response.data
      ]_vars

(***************************************************************************)
(* C1 (amended): a POST /api/books with a non-empty title and author      *)
(* returns 201, the new identifier is the value of nextBookId before the  *)
(* request, which is one greater than the greatest identifier ever        *)
(* assigned (deleted books included), the entry is appended, and a GET    *)
(* for that identifier right after returns 200 with the entry.            *)
(***************************************************************************)
C1_IdAfterEverAssigned ==
    [][ /\ ( /\ IsReq(request', "POST", "/api/books")
             /\ NonEmptyString(request'.body, "title")
             /\ NonEmptyString(request'.body, "author") )
           => /\ response'.status = 201
              /\ response'.data.id = Num(nextBookId)
              /\ nextBookId = Max(assignedBookIds) + 1
              /\ books' = Append(books, response'.data)
        /\ GetAfterCreate => response'.status = 200 /\ response'.data = response.data
      ]_vars

\* a book created after a deletion of the last book is read back
C1_Witness ==
    /\ IsReq(request, "GET", "/api/books/:id")
    /\ response.status = 200
    /\ response.data.id.num >= FirstBookId
    /\ response.data.id.num > MaxId(SubSeq(books, 1, Len(books) - 1)) + 1

(***************************************************************************)
(* C2: nextBookId and nextUserId never decrease, and an entry that enters *)
(* a collection never carries an identifier that was assigned before,     *)
(* also when the earlier entry with it has been deleted.                  *)
(***************************************************************************)
C2_IdsNeverReused ==
    [][ /\ nextBookId' >= nextBookId
        /\ nextUserId' >= nextUserId
        /\ \A i \in 1..Len(books') :
              books'[i].id \notin Ids(books) => books'[i].id.num \notin assignedBookIds
        /\ \A i \in 1..Len(users') :
              users'[i].id \notin Ids(users) => users'[i].id.num \notin assignedUserIds
      ]_vars

\* a book and a user were created after a book was deleted
C2_Witness ==
    /\ deletedBookIds # {}
    /\ nextBookId > FirstBookId
    /\ nextUserId > FirstUserId
    /\ response.status = 201

(***************************************************************************)
(* C3: a POST /api/books whose body lacks title or author, or has either  *)
(* empty, returns 400 and leaves books and nextBookId as they were.       *)
(***************************************************************************)
C3_InvalidCreateRejected ==
    [][ ( /\ IsReq(request', "POST", "/api/books")
          /\ \/ LacksOrEmpty(request'.body, "title")
             \/ LacksOrEmpty(request'.body, "author") )
        => /\ response'.status = 400
           /\ books' = books
           /\ nextBookId' = nextBookId
      ]_vars

\* a create with a title but an empty or missing author was rejected
C3_Witness ==
    /\ IsReq(request, "POST", "/api/books")
    /\ NonEmptyString(request.body, "title")
    /\ LacksOrEmpty(request.body, "author")
    /\ response.status = 400

\* the collection has an entry whose id is the number the path segment parses to
Present(coll, seg) == \E i \in 1..Len(coll) : coll[i].id = parseInt(seg)

\* the position of that entry
PositionOf(coll, seg) == CHOOSE i \in 1..Len(coll) : coll[i].id = parseInt(seg)

BookFields == {"title", "author", "year", "genre"}

\* the body supplies the four fields of a book, each with a value of its type
SuppliesBook(body) ==
    /\ NonEmptyString(body, "title")
    /\ NonEmptyString(body, "author")
    /\ IsNum(Prop(body, "year"))
    /\ IsStr(Prop(body, "genre"))

(***************************************************************************)
(* C4: for an existing id, a PUT that supplies title, author, year and    *)
(* genre makes the stored entry exactly {id, title, author, year, genre}  *)
(* with the original id and the supplied values, at the same position,    *)
(* and answers 200 with that entry.                                       *)
(***************************************************************************)
C4_PutReplacesEntry ==
    [][ ( /\ IsReq(request', "PUT", "/api/books/:id")
          /\ Present(books, request'.seg)
          /\ SuppliesBook(request'.body) )
        => LET i == PositionOf(books, request'.seg)
               body == request'.body
           IN  /\ response'.status = 200
               /\ Len(books') = Len(books)
               /\ books'[i] = [id |-> books[i].id,
                               title |-> Prop(body, "title"),
                               author |-> Prop(body, "author"),
                               year |-> Prop(body, "year"),
                               genre |-> Prop(body, "genre")]
               /\ response'.data = books'[i]
      ]_vars

(***************************************************************************)
(* C5: PUT answers 404 when the id is absent, whatever the body; for an   *)
(* existing id it answers 400 exactly when one of title, author, year,    *)
(* genre is missing from the body (a field given as the empty string is   *)
(* counted as missing here); in both error cases books is unchanged.      *)
(***************************************************************************)
C5_PutErrors ==
    [][ IsReq(request', "PUT", "/api/books/:id")
        => /\ ~Present(books, request'.seg) => response'.status = 404
           /\ Present(books, request'.seg)
                => ( response'.status = 400
                     <=> \E k \in BookFields : LacksOrEmpty(request'.body, k) )
           /\ response'.status \in {400, 404} => books' = books
      ]_vars

(***************************************************************************)
(* C6: for an existing id, PATCH changes only the fields named in the     *)
(* body: a field of the entry that is not in the body keeps its value,    *)
(* no field appears that is neither in the entry nor in the body, the id  *)
(* stays the path id even when the body has another id, and every other   *)
(* book, and the order of the books, is unchanged.                        *)
(***************************************************************************)
C6_PatchFrame ==
    [][ ( /\ IsReq(request', "PATCH", "/api/books/:id")
          /\ Present(books, request'.seg) )
        => LET i == PositionOf(books, request'.seg)
               body == request'.body
           IN  /\ Len(books') = Len(books)
               /\ \A j \in 1..Len(books) : j # i => books'[j] = books[j]
               /\ DOMAIN books'[i] = DOMAIN books[i] \cup KeySet(body)
               /\ \A k \in DOMAIN books[i] \ KeySet(body) : books'[i][k] = books[i][k]
               /\ \A k \in KeySet(body) \ {"id"} : books'[i][k] = Prop(body, k)
               /\ books'[i].id = parseInt(request'.seg)
               /\ books'[i].id = books[i].id
      ]_vars

\* a PATCH whose body names another id went through and changed the entry
C6_Witness ==
    /\ IsReq(request, "PATCH", "/api/books/:id")
    /\ response.status = 200
    /\ Supplies(request.body, "id")
    /\ Prop(request.body, "id") # response.updated.id
    /\ ~Supplies(request.body, "title")
    /\ response.previous # response.updated

(***************************************************************************)
(* C7: a successful PATCH answers with previous, the entry as it was      *)
(* before the request, updated, the entry now stored, and fieldsChanged,  *)
(* the field names of the body in the order the body has them.            *)
(***************************************************************************)
C7_PatchResponse ==
    [][ ( /\ IsReq(request', "PATCH", "/api/books/:id")
          /\ response'.status = 200 )
        => /\ Present(books, request'.seg)
           /\ LET i == PositionOf(books, request'.seg)
                  body == request'.body
              IN  /\ response'.previous = books[i]
                  /\ response'.updated = books'[i]
                  /\ Len(response'.fieldsChanged) = Len(body)
                  /\ \A j \in 1..Len(body) : response'.fieldsChanged[j] = body[j][1]
      ]_vars

\* the PATCH of the example: only the year is sent, and it changes
C7_Witness ==
    /\ IsReq(request, "PATCH", "/api/books/:id")
    /\ response.status = 200
    /\ response.fieldsChanged = <<"year">>
    /\ response.previous.year # response.updated.year
    /\ response.previous.title = response.updated.title

(***************************************************************************)
(* C8: DELETE of an absent id answers 404 and changes nothing; DELETE of  *)
(* a present id removes that entry and no other and returns it; once an   *)
(* id has been deleted, every later GET and DELETE for it answers 404,    *)
(* whatever came in between, and no book with that id is stored again.    *)
(***************************************************************************)
C8_DeleteOnce ==
    [][ /\ IsReq(request', "DELETE", "/api/books/:id")
           => IF ~Present(books, request'.seg)
              THEN response'.status = 404 /\ UNCHANGED store
              ELSE LET i == PositionOf(books, request'.seg)
                   IN  /\ response'.status = 200
                       /\ response'.deletedBook = books[i]
                       /\ Len(books') = Len(books) - 1
                       /\ \A j \in 1..Len(books') :
                             books'[j] = IF j < i THEN books[j] ELSE books[j + 1]
                       /\ UNCHANGED <<users, nextBookId, nextUserId>>
        /\ ( /\ request'.method \in {"GET", "DELETE"}
             /\ request'.path = "/api/books/:id"
             /\ \E d \in deletedBookIds : parseInt(request'.seg) = Num(d) )
           => response'.status = 404
        /\ \A d \in deletedBookIds' : Num(d) \notin Ids(books')
      ]_vars

\* a second DELETE of a deleted id, with a create in between, answered 404
C8_Witness ==
    /\ IsReq(request, "DELETE", "/api/books/:id")
    /\ response.status = 404
    /\ \E d \in deletedBookIds : parseInt(request.seg) = Num(d)
    /\ nextBookId > FirstBookId

(***************************************************************************)
(* C9 (as stated): GET /api/users answers 401 when the Authorization      *)
(* header is absent, 403 when it is present with any other value than     *)
(* the token, 200 with the full user list when it is the token.           *)
(***************************************************************************)
C9_AbsentOnly401 ==
    IsReq(request, "GET", "/api/users")
    => /\ response.status \in {401, 403, 200}
       /\ response.status = 401 <=> request.authorization = Undefined
       /\ response.status = 403 <=> /\ request.authorization # Undefined
                                    /\ request.authorization # Str(BearerToken)
       /\ response.status = 200 <=> request.authorization = Str(BearerToken)
       /\ response.status = 200 => response.data = users

(***************************************************************************)
(* C9 (amended): GET /api/users answers 401 when the Authorization header *)
(* is absent or empty, 403 when it is non-empty and not the token, 200    *)
(* when it is the token, and then with the full user list: the seed users *)
(* and after them every user created so far, in creation order.           *)
(***************************************************************************)
C9_UsersAuth ==
    IsReq(request, "GET", "/api/users")
    => /\ response.status \in {401, 403, 200}
       /\ response.status = 401 <=> request.authorization \in {Undefined, Str(<<>>)}
       /\ response.status = 403 <=> /\ request.authorization \notin {Undefined, Str(<<>>)}
                                    /\ request.authorization # Str(BearerToken)
       /\ response.status = 200 <=> request.authorization = Str(BearerToken)
       /\ response.status = 200
            => /\ response.data = users
               /\ SubSeq(users, 1, Len(SeedUsers)) = SeedUsers
               /\ Len(users) = Cardinality(assignedUserIds)
               /\ \A i \in 1..Len(users) : users[i].id = Num(i)

\* the list was read with the token after a user had been created
C9_Witness ==
    /\ IsReq(request, "GET", "/api/users")
    /\ response.status = 200
    /\ Len(response.data) > Len(SeedUsers)

(***************************************************************************)
(* C10: users and nextUserId change only in a POST /api/users that has    *)
(* the exact API key and a body with username and email; without the      *)
(* exact key the answer is 401 whatever the body, with the key but        *)
(* without username or email it is 400, and both leave users and          *)
(* nextUserId unchanged.                                                  *)
(***************************************************************************)
C10_UserCreationGated ==
    [][ /\ (users' # users \/ nextUserId' # nextUserId)
           => /\ IsReq(request', "POST", "/api/users")
              /\ request'.apiKey = Str(ApiKey)
              /\ Supplies(request'.body, "username")
              /\ Supplies(request'.body, "email")
        /\ (IsReq(request', "POST", "/api/users") /\ request'.apiKey # Str(ApiKey))
           => /\ response'.status = 401
              /\ UNCHANGED <<users, nextUserId>>
        /\ ( /\ IsReq(request', "POST", "/api/users")
             /\ request'.apiKey = Str(ApiKey)
             /\ \/ ~Supplies(request'.body, "username")
                \/ ~Supplies(request'.body, "email") )
           => /\ response'.status = 400
              /\ UNCHANGED <<users, nextUserId>>
      ]_vars

\* a request with a complete body but without the right key was answered 401
C10_Witness ==
    /\ IsReq(request, "POST", "/api/users")
    /\ request.apiKey # Str(ApiKey)
    /\ NonEmptyString(request.body, "username")
    /\ NonEmptyString(request.body, "email")
    /\ response.status = 401
    /\ nextUserId > FirstUserId

\* the ids of a collection, in the order of the collection
IdSeq(coll) == [i \in 1..Len(coll) |-> coll[i].id.num]

\* ascending along the sequence
Increasing(seq) == \A i, j \in 1..Len(seq) : i < j => seq[i] < seq[j]

\* the first n entries; none when n is zero or negative
FirstN(seq, n) ==
    IF n <= 0 THEN <<>> ELSE SubSeq(seq, 1, IF n < Len(seq) THEN n ELSE Len(seq))

(***************************************************************************)
(* C11: GET /api/books answers 200 with the books whose genre equals the  *)
(* genre parameter without regard to case (all books when there is none), *)
(* ascending by the sort field (order kept when there is none or the      *)
(* field is unknown), cut to the first N when limit=N is given: at most N *)
(* entries, and none when N <= 0.                                         *)
(***************************************************************************)
C11_ListBooks ==
    [][ IsReq(request', "GET", "/api/books")
        => LET query == request'.query
               genre == Prop(query, "genre")
               sort == Prop(query, "sort")
               limit == Prop(query, "limit")
               N == parseIntOf(limit)
               data == response'.data
               sorted == sortResult(filterGenre(books, genre), sort)
           IN  /\ response'.status = 200
               /\ \A i \in 1..Len(data) : \E j \in 1..Len(books) : data[i] = books[j]
               /\ Truthy(genre) =>
                     \A i \in 1..Len(data) :
                         toLowerCase(data[i].genre.str) = toLowerCase(genre.str)
               /\ Truthy(sort) =>
                     \A i, j \in 1..Len(data) :
                         i < j => ~Less(Field(data[j], sort.str), Field(data[i], sort.str))
               /\ ~Truthy(sort) => Increasing(IdSeq(data))
               /\ ~Truthy(limit) => data = sorted
               /\ IsNum(N) =>
                     /\ Len(data) <= (IF N.num < 0 THEN 0 ELSE N.num)
                     /\ data = FirstN(sorted, N.num)
      ]_vars

(***************************************************************************)
(* C12: books and users are in the order of creation in every state: a    *)
(* create appends at the end, PUT and PATCH keep the entry where it is,   *)
(* DELETE keeps the order of the others, a GET /api/books with sort       *)
(* leaves the stored collection as it is, and a GET /api/books without    *)
(* parameters returns the whole collection in that order.                 *)
(***************************************************************************)
C12_InsertionOrder ==
    [][ /\ Increasing(IdSeq(books')) /\ Increasing(IdSeq(users'))
        /\ (IsReq(request', "POST", "/api/books") /\ response'.status = 201)
              => books' = Append(books, response'.data)
        /\ (IsReq(request', "POST", "/api/users") /\ response'.status = 201)
              => users' = Append(users, response'.data)
        /\ (request'.method \in {"PUT", "PATCH"} /\ request'.path = "/api/books/:id")
              => IdSeq(books') = IdSeq(books)
        /\ IsReq(request', "DELETE", "/api/books/:id")
              => books' = SelectSeq(books, LAMBDA book : book.id # parseInt(request'.seg))
        /\ IsReq(request', "GET", "/api/books")
              => /\ books' = books
                 /\ request'.query = <<>> =>
                       response'.status = 200 /\ response'.data = books'
      ]_vars

\* a sorted list whose order is not the stored one, after a create and a delete
C12_Witness ==
    /\ IsReq(request, "GET", "/api/books")
    /\ Prop(request.query, "sort") = titleField
    /\ response.status = 200
    /\ IdSeq(response.data) # IdSeq(books)
    /\ deletedBookIds # {}
    /\ nextBookId > FirstBookId

\* the filters of a search that a book passes
PassesQ(book, q) ==
    \/ includes(toLowerCase(book.title.str), toLowerCase(q.str))
    \/ includes(toLowerCase(book.author.str), toLowerCase(q.str))
    \/ includes(toLowerCase(book.genre.str), toLowerCase(q.str))

PassesAll(book, query) ==
    /\ Truthy(Prop(query, "q")) => PassesQ(book, Prop(query, "q"))
    /\ Truthy(Prop(query, "minYear")) =>
          GreaterEq(book.year, parseIntOf(Prop(query, "minYear")))
    /\ Truthy(Prop(query, "maxYear")) =>
          LessEq(book.year, parseIntOf(Prop(query, "maxYear")))
    /\ Truthy(Prop(query, "author")) =>
          includes(toLowerCase(book.author.str), toLowerCase(Prop(query, "author").str))

(***************************************************************************)
(* C13: GET /api/search answers with exactly the books, in the order of   *)
(* the collection, that pass every supplied filter: q is a substring,     *)
(* without regard to case, of title or author or genre, year >= minYear,  *)
(* year <= maxYear, author is a substring of the book's author; a filter  *)
(* that is not supplied excludes nothing.                                 *)
(***************************************************************************)
C13_SearchFilters ==
    [][ IsReq(request', "GET", "/api/search")
        => /\ response'.status = 200
           /\ response'.data =
                 SelectSeq(books, LAMBDA book : PassesAll(book, request'.query))
           /\ response'.resultsFound = Len(response'.data)
      ]_vars

(***************************************************************************)
(* C14: in every reachable state every stored book has a title that is a  *)
(* non-empty string and an author that is a non-empty string.             *)
(***************************************************************************)
C14_TitleAndAuthor ==
    \A i \in 1..Len(books) :
        /\ IsStr(books[i].title) /\ books[i].title.str # <<>>
        /\ IsStr(books[i].author) /\ books[i].author.str # <<>>

(***************************************************************************)
(* C15: GET /api/books and GET /api/search answer 200 with success true   *)
(* in every reachable state and for every query.                          *)
(***************************************************************************)
C15_QueriesNeverFail ==
    [][ (IsReq(request', "GET", "/api/books") \/ IsReq(request', "GET", "/api/search"))
        => response'.status = 200 /\ response'.success = TRUE
      ]_vars

\* the status is an error status
IsErrorStatus(n) == n >= 400 /\ n <= 599

(***************************************************************************)
(* C16: every response of every route, GET /, GET /api/status/:code and   *)
(* the fallback for unmatched routes included, has a boolean success      *)
(* field, and every response with a 4xx or 5xx status has an error field  *)
(* that is a string.                                                      *)
(***************************************************************************)
C16_Envelope ==
    response # NoResponse
    => /\ "success" \in DOMAIN response
       /\ response.success \in BOOLEAN
       /\ IsErrorStatus(response.status) =>
             "error" \in DOMAIN response /\ response.error \in STRING

\* r * b = a, for the result r of a division
IsQuotient(r, a, b) ==
    IF IsNum(r) THEN r.num * b = a ELSE r.numer * b = a * r.denom

(***************************************************************************)
(* C17: POST /api/calculate answers 400 when a or b is not a number       *)
(* (tested before the operation name), when the operation is none of      *)
(* add, subtract, multiply, divide, or when it is divide and b is 0; in    *)
(* every other case it answers 200 with result a+b, a-b, a*b or a/b       *)
(* (multiply with a = 7 and b = 8 gives 56).                              *)
(***************************************************************************)
C17_Calculate ==
    [][ IsReq(request', "POST", "/api/calculate")
        => LET operation == Prop(request'.body, "operation")
               a == Prop(request'.body, "a")
               b == Prop(request'.body, "b")
           IN  IF ~IsNum(a) \/ ~IsNum(b)
               THEN response'.status = 400 /\ response'.error = "a and b must be numbers"
               ELSE IF operation \notin {add, subtract, multiply, divide}
               THEN response'.status = 400 /\ response'.error = "Unknown operation"
               ELSE IF operation = divide /\ b.num = 0
               THEN response'.status = 400 /\ response'.error = "Cannot divide by zero"
               ELSE /\ response'.status = 200
                    /\ operation = add => response'.result = Num(a.num + b.num)
                    /\ operation = subtract => response'.result = Num(a.num - b.num)
                    /\ operation = multiply => response'.result = Num(a.num * b.num)
                    /\ operation = divide => IsQuotient(response'.result, a.num, b.num)
                    /\ (operation = multiply /\ a = Num(7) /\ b = Num(8))
                          => response'.result = Num(56)
      ]_vars

\* a division that does not come out even was answered
C17_Witness ==
    /\ IsReq(request, "POST", "/api/calculate")
    /\ Prop(request.body, "operation") = divide
    /\ response.status = 200
    /\ ~IsNum(response.result)

C19_GetIsSafe ==
    [][ request'.method = "GET" => UNCHANGED <<books, users, nextBookId, nextUserId>> ]_vars

\* a GET that failed, in a store that earlier requests have changed
C19_Witness ==
    /\ request.method = "GET"
    /\ response.status = 500
    /\ books # SeedBooks
    /\ nextBookId > FirstBookId

(***************************************************************************)
(* C20: PUT /api/books/:id is idempotent: the same PUT request (same id,  *)
(* same body) sent a second time right after the first leaves the store   *)
(* as the first left it and gets the same status and data.                *)
(***************************************************************************)
C20_PutIdempotent ==
    [][ (IsReq(request', "PUT", "/api/books/:id") /\ request' = request)
        => /\ UNCHANGED <<books, users, nextBookId, nextUserId>>
           /\ response'.status = response.status
           /\ response'.status = 200 => response'.data = response.data
           /\ response' = response
      ]_vars

\* a successful PUT was sent twice in a row, to a book created before
C20_Witness ==
    /\ IsReq(request, "PUT", "/api/books/:id")
    /\ repeated
    /\ response.status = 200
    /\ parseInt(request.seg) = Num(FirstBookId)

\* the segment is a decimal numeral: digits only, at least one
PurelyNumeric(seg) == seg # <<>> /\ \A i \in 1..Len(seg) : IsDigit(seg[i], 10)

(***************************************************************************)
(* C21: a path identifier that is not a number (it does not parse, or it  *)
(* is not digits only, such as "abc" or "1abc") is not found on GET, PUT, *)
(* PATCH and DELETE /api/books/:id: the answer is 404 and no book is      *)
(* read, changed or removed.                                              *)
(***************************************************************************)
C21_NonNumericIdNotFound ==
    [][ ( /\ request'.path = "/api/books/:id"
          /\ request'.method \in {"GET", "PUT", "PATCH", "DELETE"}
          /\ ~PurelyNumeric(request'.seg) )
        => /\ response'.status = 404
           /\ UNCHANGED <<books, nextBookId>>
      ]_vars

\* decimal digits and letters
DecimalDigits == {"0", "1", "2", "3", "4", "5", "6", "7", "8", "9"}
Letters == {Alphabet[i] : i \in CodeOf("A")..CodeOf("Z")} \cup
           {Alphabet[i] : i \in CodeOf("a")..CodeOf("z")}

\* the number that the leading decimal digits of the segment spell
RECURSIVE LeadingNumber(_, _)
LeadingNumber(seg, acc) ==
    IF seg # <<>> /\ Head(seg) \in DecimalDigits
    THEN LeadingNumber(Tail(seg), 10 * acc +
             (CHOOSE d \in 0..9 : Alphabet[CodeOf("0") + d] = Head(seg)))
    ELSE acc

\* the segment starts with a decimal digit and is not a 0x numeral
StartsDecimal(seg) ==
    /\ seg # <<>> /\ Head(seg) \in DecimalDigits
    /\ ~(Len(seg) >= 2 /\ seg[1] = "0" /\ seg[2] \in {"x", "X"})

(***************************************************************************)
(* C21 (amended): on GET, PUT, PATCH and DELETE /api/books/:id a path     *)
(* identifier that starts with a letter ("abc") is not found: 404, and    *)
(* books and nextBookId stay as they are.  A path identifier that starts  *)
(* with decimal digits ("4abc") stands for the number its leading digits  *)
(* spell: the answer is 404 exactly when no book has that id, a GET that  *)
(* finds the book returns it, and a DELETE that finds it removes it.      *)
(***************************************************************************)
C21_LeadingDigitsIdentify ==
    [][ ( /\ request'.path = "/api/books/:id"
          /\ request'.method \in {"GET", "PUT", "PATCH", "DELETE"} )
        => LET seg == request'.seg
               n == Num(LeadingNumber(seg, 0))
           IN  /\ (seg # <<>> /\ Head(seg) \in Letters) =>
                     response'.status = 404 /\ UNCHANGED <<books, nextBookId>>
               /\ StartsDecimal(seg) =>
                     /\ response'.status = 404 <=> n \notin Ids(books)
                     /\ response'.status = 404 => UNCHANGED <<books, nextBookId>>
                     /\ (request'.method = "GET" /\ response'.status = 200) =>
                           response'.data.id = n /\ UNCHANGED books
                     /\ (request'.method = "DELETE" /\ response'.status = 200) =>
                           n \notin Ids(books') /\ Len(books') = Len(books) - 1
      ]_vars

\* a book was deleted through an identifier with letters after the digits
C21_Witness ==
    /\ IsReq(request, "DELETE", "/api/books/:id")
    /\ ~PurelyNumeric(request.seg)
    /\ response.status = 200
    /\ deletedBookIds # {}

\* the ids of the collection are pairwise distinct, ascending along the
\* collection, and below the counter
IdsInOrder(coll, nextId) ==
    /\ \A i, j \in 1..Len(coll) : i # j => coll[i].id # coll[j].id
    /\ \A i, j \in 1..Len(coll) : i < j => coll[i].id.num < coll[j].id.num
    /\ \A i \in 1..Len(coll) : IsNum(coll[i].id) /\ coll[i].id.num < nextId

(***************************************************************************)
(* C23: in every reachable state the identifiers within books, and within *)
(* users, are pairwise distinct, strictly increasing along the collection *)
(* and all less than the next-id counter of the collection; no PUT and no *)
(* PATCH changes the identifier of an entry.                              *)
(***************************************************************************)
C23_IdsDistinctOrderedBounded ==
    [][ /\ IdsInOrder(books, nextBookId) /\ IdsInOrder(users, nextUserId)
        /\ IdsInOrder(books', nextBookId') /\ IdsInOrder(users', nextUserId')
        /\ request'.method \in {"PUT", "PATCH"} =>
              /\ Len(books') = Len(books)
              /\ \A i \in 1..Len(books) : books'[i].id = books[i].id
      ]_vars

\* a PATCH whose body names another id was applied to a book created by a request
C23_Witness ==
    /\ IsReq(request, "PATCH", "/api/books/:id")
    /\ Supplies(request.body, "id")
    /\ Prop(request.body, "id") # parseInt(request.seg)
    /\ response.status = 200
    /\ parseInt(request.seg) = Num(FirstBookId)

\* the tickets of the slow requests that wait on their timers
Waiting == {pending[i].ticket : i \in 1..Len(pending)}

\* every slow request either waits, with no response yet, or has exactly one
ExactlyOneOrWaiting ==
    /\ \A i, j \in 1..Len(pending) : i # j => pending[i].ticket # pending[j].ticket
    /\ Waiting \subseteq DOMAIN slowResponses
    /\ \A t \in DOMAIN slowResponses :
          slowResponses[t] = (IF t \in Waiting THEN 0 ELSE 1)

(***************************************************************************)
(* C22: with any number of GET /api/slow requests waiting on their        *)
(* timers, other requests are handled in between, each in one step that   *)
(* runs to completion (the store changes only within the step of one      *)
(* request that is not a slow one, and the counter and the collection     *)
(* change together), a waiting slow request blocks no other request, and  *)
(* every slow request at last receives exactly one response, a 200,       *)
(* without having changed the store.                                      *)
(***************************************************************************)
C22_SlowRequests ==
    /\ [][ /\ ExactlyOneOrWaiting'
           /\ store' # store =>
                 /\ nreq' = nreq + 1
                 /\ request'.path # "/api/slow"
                 /\ UNCHANGED <<pending, slowResponses>>
           /\ nextBookId' = Max(assignedBookIds') + 1
           /\ (pending' # pending \/ slowResponses' # slowResponses) =>
                 /\ IsReq(request', "GET", "/api/slow")
                 /\ UNCHANGED store
                 /\ slowResponses' # slowResponses =>
                       response'.status = IF Len(pending') < Len(pending) THEN 200 ELSE 0
         ]_vars
    /\ [](( pending # <<>> /\ nreq < MaxRequests )
            => /\ ENABLED PostBook(Minimal)
               /\ ENABLED GetBook(<<"2">>)
               /\ ENABLED DeleteBook(<<"2">>)
               /\ ENABLED GetSlow(<<>>))
    /\ \A t \in 1..MaxRequests :
          (t \in DOMAIN slowResponses) ~> (t \in DOMAIN slowResponses /\ slowResponses[t] = 1)

\* two slow requests waited while a book was created, and one of them has been answered
C22_Witness ==
    /\ Len(slowResponses) >= 2
    /\ nextBookId > FirstBookId
    /\ \E t \in DOMAIN slowResponses : slowResponses[t] = 1
    /\ pending # <<>>

====
